---- MODULE Spec2Model ----
(***************************************************************************)
(* Model of commands.py: the chat-command parser and dispatcher.           *)
(*                                                                         *)
(* A text is a sequence of one-character strings.  A regular expression    *)
(* is a tree of records; ReMatch interprets it the way re.match does       *)
(* (anchored at the start only, backtracking, greedy, leftmost choice      *)
(* first).  CommandParser.parse and CommandParser.execute are operators    *)
(* over the registry (Command.__subclasses__()), and the action Execute    *)
(* is one call of CommandParser.execute against the game context.          *)
(***************************************************************************)
EXTENDS Integers, Sequences, FiniteSets, TLC

VARIABLES
    registry,       \* Command.__subclasses__(), in definition order
    time_of_day,    \* controller.time_of_day
    inventory,      \* user.inventory: item id -> quantity held
    call            \* the last call of CommandParser.execute and what it did

vars == <<registry, time_of_day, inventory, call>>

----------------------------------------------------------------------------
(* Characters *)

Digits == <<"0", "1", "2", "3", "4", "5", "6", "7", "8", "9">>

DigitChars == {Digits[i] : i \in 1..Len(Digits)}

\* string.whitespace, as str.strip() and the class \s use it
Whitespace == {" ", "\t", "\n", "\r", "\f"}

DigitValue(c) == (CHOOSE i \in 1..Len(Digits) : Digits[i] = c) - 1

----------------------------------------------------------------------------
(* Regular expressions: the syntax the command patterns use *)

Lit(c) == [op |-> "lit", c |-> c]
Digit == [op |-> "digit"]
Space == [op |-> "space"]
AnyChar == [op |-> "any"]
Bol == [op |-> "bol"]
Eol == [op |-> "eol"]
Cat(rs) == [op |-> "cat", rs |-> rs]
Opt(r) == [op |-> "opt", r |-> r]
Star(r) == [op |-> "star", r |-> r]
Plus(r) == [op |-> "cat", rs |-> <<r, [op |-> "star", r |-> r]>>]
Group(idx, name, r) == [op |-> "group", idx |-> idx, name |-> name, r |-> r]
Lits(s) == [op |-> "cat", rs |-> [i \in 1..Len(s) |-> Lit(s[i])]]

\* A class attribute "command" that is None, and one that is not a valid
\* regular expression: neither is a tree re can match with.
NonePattern == [op |-> "None"]
InvalidPattern == [op |-> "invalid"]

Max(a, b) == IF a >= b THEN a ELSE b

RECURSIVE NumGroups(_)
RECURSIVE NumGroupsIn(_, _)
NumGroups(r) ==
    CASE r.op = "group" -> Max(r.idx, NumGroups(r.r))
      [] r.op \in {"opt", "star"} -> NumGroups(r.r)
      [] r.op = "cat" -> NumGroupsIn(r.rs, 1)
      [] OTHER -> 0

NumGroupsIn(rs, i) ==
    IF i > Len(rs) THEN 0 ELSE Max(NumGroups(rs[i]), NumGroupsIn(rs, i + 1))

\* pattern.groupindex: the named groups, as <<name, index>> pairs
RECURSIVE GroupIndex(_)
RECURSIVE GroupIndexIn(_, _)
GroupIndex(r) ==
    CASE r.op = "group" ->
            (IF r.name = "" THEN {} ELSE {<<r.name, r.idx>>}) \cup GroupIndex(r.r)
      [] r.op \in {"opt", "star"} -> GroupIndex(r.r)
      [] r.op = "cat" -> GroupIndexIn(r.rs, 1)
      [] OTHER -> {}

GroupIndexIn(rs, i) ==
    IF i > Len(rs) THEN {} ELSE GroupIndex(rs[i]) \cup GroupIndexIn(rs, i + 1)

\* match.span(i) of a group that did not participate in the match
NoSpan == <<-1, -1>>

(* The backtracking matcher.  A matcher state is the position reached and  *)
(* the spans of the groups; M gives every way r can match at st, best      *)
(* (the one re takes) first.                                               *)
RECURSIVE M(_, _, _)
RECURSIVE MAll(_, _, _)
RECURSIVE MCat(_, _, _, _)

Progress(sts, pos) == SelectSeq(sts, LAMBDA x : x.pos > pos)

SetSpan(sts, idx, from) ==
    [i \in 1..Len(sts) |->
        [pos |-> sts[i].pos,
         spans |-> [sts[i].spans EXCEPT ![idx] = <<from, sts[i].pos>>]]]

Step(st) == [pos |-> st.pos + 1, spans |-> st.spans]

M(r, s, st) ==
    CASE r.op = "lit" ->
            IF st.pos < Len(s) /\ s[st.pos + 1] = r.c THEN <<Step(st)>> ELSE <<>>
      [] r.op = "digit" ->
            IF st.pos < Len(s) /\ s[st.pos + 1] \in DigitChars THEN <<Step(st)>> ELSE <<>>
      [] r.op = "space" ->
            IF st.pos < Len(s) /\ s[st.pos + 1] \in Whitespace THEN <<Step(st)>> ELSE <<>>
      [] r.op = "any" ->
            IF st.pos < Len(s) /\ s[st.pos + 1] # "\n" THEN <<Step(st)>> ELSE <<>>
      [] r.op = "bol" -> IF st.pos = 0 THEN <<st>> ELSE <<>>
      [] r.op = "eol" ->
            IF \/ st.pos = Len(s)
               \/ st.pos = Len(s) - 1 /\ s[Len(s)] = "\n"
            THEN <<st>> ELSE <<>>
      [] r.op = "cat" -> MCat(r.rs, 1, s, <<st>>)
      [] r.op = "opt" -> M(r.r, s, st) \o <<st>>
      [] r.op = "star" -> MAll(r, s, Progress(M(r.r, s, st), st.pos)) \o <<st>>
      [] r.op = "group" -> SetSpan(M(r.r, s, st), r.idx, st.pos)

MAll(r, s, sts) ==
    IF sts = <<>> THEN <<>> ELSE M(r, s, Head(sts)) \o MAll(r, s, Tail(sts))

MCat(rs, i, s, sts) ==
    IF i > Len(rs) THEN sts ELSE MCat(rs, i + 1, s, MAll(rs[i], s, sts))


\* re.match(pattern, string): the match object, or None (matched = FALSE),
\* or the exception re raises for a pattern it cannot compile.
NoMatch(raised) == [raised |-> raised, matched |-> FALSE, end |-> 0, spans |-> <<>>]

ReMatch(pattern, string) ==
    CASE pattern.op = "None" -> NoMatch("TypeError")
      [] pattern.op = "invalid" -> NoMatch("re.error")
      [] OTHER ->
            LET start == [pos |-> 0, spans |-> [i \in 1..NumGroups(pattern) |-> NoSpan]]
                found == M(pattern, string, start)
            IN  IF found = <<>>
                THEN NoMatch("")
                ELSE [raised |-> "", matched |-> TRUE,
                      end |-> Head(found).pos, spans |-> Head(found).spans]

----------------------------------------------------------------------------
(* Python values *)

None == <<"None">>
True == <<"bool", "True">>
False == <<"bool", "False">>
PyInt(v) == <<"int", v>>
PyStr(v) == <<"str", v>>

COMMAND_HANDLED == True
COMMAND_NOT_HANDLED == None

\* Mutant: the sentinel looked for after leading whitespace
StartsWithSlash_lstrip(text) ==
    \E i \in 1..Len(text) :
        text[i] = "/" /\ \A j \in 1..(i - 1) : text[j] \in {" ", "\t", "\n", "\r", "\f"}

\* command_text.startswith("/")
StartsWithSlash(text) == Len(text) >= 1 /\ text[1] = "/"

RECURSIVE LStrip(_)
LStrip(s) == IF s # <<>> /\ Head(s) \in Whitespace THEN LStrip(Tail(s)) ELSE s

RECURSIVE RStrip(_)
RStrip(s) ==
    IF s # <<>> /\ s[Len(s)] \in Whitespace THEN RStrip(SubSeq(s, 1, Len(s) - 1)) ELSE s

\* str.strip()
Strip(s) == RStrip(LStrip(s))

\* command_text[1:].strip()
Stripped(command_text) == Strip(Tail(command_text))

\* match.groups(): every group of the pattern, None where it did not participate
Groups(string, m) ==
    [i \in 1..Len(m.spans) |->
        IF m.spans[i] = NoSpan THEN None
        ELSE SubSeq(string, m.spans[i][1] + 1, m.spans[i][2])]

\* match.groupdict(): the named groups, as <<name, value>> pairs
GroupDict(pattern, string, m) ==
    {<<ni[1], Groups(string, m)[ni[2]]>> : ni \in GroupIndex(pattern)}

\* int(s) of a string: the value, or ValueError
IsIntLiteral(s) == s # <<>> /\ \A i \in 1..Len(s) : s[i] \in DigitChars

RECURSIVE IntOf(_)
IntOf(s) == IF s = <<>> THEN 0 ELSE 10 * IntOf(SubSeq(s, 1, Len(s) - 1)) + DigitValue(s[Len(s)])

\* float(s) of a string: digits with at most one point and a digit somewhere
IsFloatLiteral(s) ==
    /\ \A i \in 1..Len(s) : s[i] \in DigitChars \cup {"."}
    /\ Cardinality({i \in 1..Len(s) : s[i] = "."}) <= 1
    /\ \E i \in 1..Len(s) : s[i] \in DigitChars

RECURSIVE DropZeros(_)
DropZeros(s) == IF s # <<>> /\ s[Len(s)] = "0" THEN DropZeros(SubSeq(s, 1, Len(s) - 1)) ELSE s

\* The value of float(s): the integer part and the fraction digits, so that
\* float("5") = float("5.0") # float("5.5")
FloatOf(s) ==
    LET dots == {i \in 1..Len(s) : s[i] = "."}
        dot == IF dots = {} THEN Len(s) + 1 ELSE CHOOSE i \in dots : TRUE
    IN  <<IntOf(SubSeq(s, 1, dot - 1)), DropZeros(SubSeq(s, dot + 1, Len(s)))>>


----------------------------------------------------------------------------
(* Exceptions *)

NoException == [type |-> "", command_text |-> <<>>, message |-> None, message_args |-> <<>>]

\* CommandException(command_text, message=...); str(e) formats message with
\* message_args
CommandException(command_text, message, message_args) ==
    [type |-> "CommandException", command_text |-> command_text,
     message |-> message, message_args |-> message_args]

\* Mutant: the exception told the text without its sentinel
UnknownCommandException_body(command_text) ==
    [type |-> "UnknownCommandException", command_text |-> Tail(command_text),
     message |-> None, message_args |-> <<>>]

\* UnknownCommandException(command_text): a CommandException with no message
UnknownCommandException(command_text) ==
    [type |-> "UnknownCommandException", command_text |-> command_text,
     message |-> None, message_args |-> <<>>]

\* Any exception that is not a CommandException
OtherException(type) ==
    [type |-> type, command_text |-> <<>>, message |-> None, message_args |-> <<>>]

----------------------------------------------------------------------------
(* The commands *)

GIVE == <<"g", "i", "v", "e">>
TIME == <<"t", "i", "m", "e">>
SET == <<"s", "e", "t">>
FOO == <<"f", "o", "o">>
BAR == <<"b", "a", "r">>
WARP == <<"w", "a", "r", "p">>
SP == <<" ">>

\* Mutant: r"^give (.{1,3})\s*(\d+)?$", an identifier of any characters
GivePattern_anyid ==
    Cat(<<Bol, Lits(GIVE \o SP), Group(1, "", Cat(<<AnyChar, Opt(AnyChar), Opt(AnyChar)>>)),
          Star(Space), Opt(Group(2, "", Plus(Digit))), Eol>>)

\* r"^give (\d+(?:\.\d+)?)\s*(\d+)?$"
GivePattern ==
    Cat(<<Bol, Lits(GIVE \o SP),
          Group(1, "", Cat(<<Plus(Digit), Opt(Cat(<<Lit("."), Plus(Digit)>>))>>)),
          Star(Space), Opt(Group(2, "", Plus(Digit))), Eol>>)

\* Mutant: r"^time set (\d+)", the closing $ forgotten
SetTimePattern_open ==
    Cat(<<Bol, Lits(TIME \o SP \o SET \o SP), Group(1, "", Plus(Digit))>>)

\* r"^time set (\d+)$"
SetTimePattern ==
    Cat(<<Bol, Lits(TIME \o SP \o SET \o SP), Group(1, "", Plus(Digit)), Eol>>)

\* A Command subclass: its name, its "command" attribute, and, for a
\* subclass whose execute only returns a value, that value.
GiveBlockCommand == [name |-> "GiveBlockCommand", command |-> GivePattern, returns |-> None]
SetTimeCommand == [name |-> "SetTimeCommand", command |-> SetTimePattern, returns |-> None]

\* Command.__subclasses__() of commands.py
BuiltinRegistry == <<GiveBlockCommand, SetTimeCommand>>

\* Mutant: Command without a command attribute of its own, so that hasattr
\* tells the subclass that defines none
HasCommandAttr_own(command_type) == command_type.command.op # "None"

\* hasattr(command_type, "command"): Command itself defines command = None,
\* so every subclass has the attribute
HasCommandAttr(command_type) == TRUE

\* Command.__init__
NoInstance == [type |-> "", command_text |-> <<>>]
NewCommand(command_type, command_text) ==
    [type |-> command_type.name, command_text |-> command_text]

\* What a handler did: the exception it raised or the value it returned,
\* and the context it leaves
Raised(e, tod, inv) ==
    [raised |-> TRUE, exc |-> e, ret |-> None, time_of_day |-> tod, inventory |-> inv]
Returned(v, tod, inv) ==
    [raised |-> FALSE, exc |-> NoException, ret |-> v, time_of_day |-> tod, inventory |-> inv]

\* The items user.inventory knows: 5.0
KnownItems == {<<5, <<>>>>}

\* user.inventory.add_item(item, quantity=...): KeyError for an unknown item
AddItemRaises(inv, item) == item \notin DOMAIN inv
AddItem(inv, item, quantity) == [inv EXCEPT ![item] = @ + quantity]

\* GiveBlockCommand.execute(block_id, amount=1, *args, **kwargs)
GiveBlockExecute(self, args, kwargs, tod, inv) ==
    IF args = <<>> \/ \E kv \in kwargs : kv[1] = "block_id" \/ (kv[1] = "amount" /\ Len(args) >= 2)
    THEN Raised(OtherException("TypeError"), tod, inv)
    ELSE
    LET block_id == args[1]
        hasAmount == Len(args) >= 2 \/ \E kv \in kwargs : kv[1] = "amount"
        amount == IF Len(args) >= 2 THEN args[2]
                  ELSE (CHOOSE kv \in kwargs : kv[1] = "amount")[2]
    IN  IF ~IsFloatLiteral(block_id) \/ (hasAmount /\ ~IsIntLiteral(amount))
        THEN Raised(CommandException(self.command_text,
                        PyStr("ID should be a number. Amount must be an integer."), <<>>),
                    tod, inv)
        ELSE IF AddItemRaises(inv, FloatOf(block_id))
        THEN Raised(CommandException(self.command_text,
                        PyStr("ID %s unknown."), <<block_id>>), tod, inv)
        ELSE Returned(None, tod,
                      AddItem(inv, FloatOf(block_id), IF hasAmount THEN IntOf(amount) ELSE 1))

\* Mutant: 0 <= tod < 24
InRange_exclusive(tod) == 0 <= tod /\ tod < 24

\* 0 <= tod <= 24
InRange(tod) == 0 <= tod /\ tod <= 24

\* SetTimeCommand.execute(time, *args, **kwargs)
SetTimeExecute(self, args, kwargs, tod, inv) ==
    IF args = <<>> \/ \E kv \in kwargs : kv[1] = "time"
    THEN Raised(OtherException("TypeError"), tod, inv)
    ELSE
    LET time == args[1]
    IN  IF IsIntLiteral(time) /\ InRange(IntOf(time))
        THEN Returned(None, IntOf(time), inv)
        ELSE Raised(CommandException(self.command_text,
                        PyStr("Time should be a number between 0 and 24"), <<>>),
                    tod, inv)

\* command.execute(*args, **kwargs) of an instance of command_type
CommandExecute(command_type, self, args, kwargs, tod, inv) ==
    CASE command_type.name = "GiveBlockCommand" -> GiveBlockExecute(self, args, kwargs, tod, inv)
      [] command_type.name = "SetTimeCommand" -> SetTimeExecute(self, args, kwargs, tod, inv)
      [] OTHER -> Returned(command_type.returns, tod, inv)

----------------------------------------------------------------------------
(* CommandParser *)

NotParsed(raised) ==
    [raised |-> raised, parsed |-> FALSE, index |-> 0,
     instance |-> NoInstance, match |-> NoMatch("")]

\* The loop of parse over Command.__subclasses__() from the i-th on
RECURSIVE ParseFrom(_, _, _)
ParseFrom(subclasses, stripped, i) ==
    IF i > Len(subclasses) THEN NotParsed("")
    ELSE LET command_type == subclasses[i]
         IN  IF ~HasCommandAttr(command_type) THEN NotParsed("Exception")
             ELSE LET match == ReMatch(command_type.command, stripped)
                  IN  IF match.raised # "" THEN NotParsed(match.raised)
                      ELSE IF match.matched
                      THEN [raised |-> "", parsed |-> TRUE, index |-> i,
                            instance |-> NewCommand(command_type, stripped),
                            match |-> match]
                      ELSE ParseFrom(subclasses, stripped, i + 1)

\* Mutant: the last subclass that matches wins
parse_last(subclasses, command_text) ==
    IF StartsWithSlash(command_text)
    THEN LET stripped == Stripped(command_text)
             hits == {i \in 1..Len(subclasses) :
                        ReMatch(subclasses[i].command, stripped).matched}
         IN  IF hits = {} THEN ParseFrom(subclasses, stripped, 1)
             ELSE ParseFrom(subclasses, stripped, CHOOSE i \in hits : \A j \in hits : j <= i)
    ELSE NotParsed("")

\* CommandParser.parse(command_text, ...): (instance, match) or None
parse(subclasses, command_text) ==
    IF StartsWithSlash(command_text)
    THEN ParseFrom(subclasses, Stripped(command_text), 1)
    ELSE NotParsed("")

\* Mutant: the groups passed as they are, None included
Args_unfiltered(groups) == groups

\* filter(lambda a: a is not None, match.groups())
Args(groups) == SelectSeq(groups, LAMBDA a : a # None)

\* the groupdict items whose value is not None
Kwargs(groupdict) == {kv \in groupdict : kv[2] # None}

\* Mutant: COMMAND_HANDLED if not ret
Normalize_falsy(ret) == IF ret \in {None, False, PyInt("0")} THEN COMMAND_HANDLED ELSE ret

\* COMMAND_HANDLED if ret is None, else ret
Normalize(ret) == IF ret = None THEN COMMAND_HANDLED ELSE ret

----------------------------------------------------------------------------
(* Subclasses of Command beyond the two of commands.py.  Any module may     *)
(* define one; parse finds it through Command.__subclasses__().            *)

\* command = "foo.*", execute inherited from Command (returns None)
FooStarCommand ==
    [name |-> "FooStarCommand", command |-> Cat(<<Lits(FOO), Star(AnyChar)>>),
     returns |-> None]

\* command = "foobar", execute returns v
FoobarCommand(v) == [name |-> "FoobarCommand", command |-> Lits(FOO \o BAR), returns |-> v]

\* command = r"^warp (\d+)?:(?P<y>\d+)(?::(\d+))?$", execute inherited
WarpCommand ==
    [name |-> "WarpCommand",
     command |-> Cat(<<Bol, Lits(WARP \o SP), Opt(Group(1, "", Plus(Digit))), Lit(":"),
                       Group(2, "y", Plus(Digit)),
                       Opt(Cat(<<Lit(":"), Group(3, "", Plus(Digit))>>)), Eol>>),
     returns |-> None]

\* no command attribute of its own: Command.command (None) is inherited
NoPatternCommand == [name |-> "NoPatternCommand", command |-> NonePattern, returns |-> None]

\* command = "(" : not a regular expression
BadPatternCommand == [name |-> "BadPatternCommand", command |-> InvalidPattern, returns |-> None]

ReturnValues == {True, False, PyInt("1"), PyStr("ok")}

ExtraCommands ==
    {FooStarCommand, WarpCommand, NoPatternCommand, BadPatternCommand}
        \cup {FoobarCommand(v) : v \in ReturnValues}

MaxExtra == 2

\* The sequences of at most MaxExtra extra subclasses, no name twice
ExtraSeqs ==
    {q \in UNION {[1..n -> ExtraCommands] : n \in 0..MaxExtra} :
        \A i, j \in 1..Len(q) : i # j => q[i].name # q[j].name}

\* The registries: commands.py's subclasses, then those defined after it
Registries == {BuiltinRegistry \o q : q \in ExtraSeqs}

----------------------------------------------------------------------------
(* The texts the callers pass *)

MaxTime == 26
MaxAmount == 1
MaxQuantity == 2

RECURSIVE Decimal(_)
Decimal(n) == IF n < 10 THEN <<Digits[n + 1]>> ELSE Decimal(n \div 10) \o <<Digits[(n % 10) + 1]>>

TimeArgs ==
    {Decimal(n) : n \in 0..MaxTime}
        \cup {<<"0", "0", "7">>, <<"n", "o", "o", "n">>, <<"-", "1">>, <<"5", "x">>, <<>>}

GiveIds == {<<"5">>, <<"5", ".", "5">>, <<"5", "3">>, <<"a", "b", "c">>}
GiveSeps == {<<>>, SP}
GiveAmounts == {Decimal(n) : n \in 1..MaxAmount} \cup {<<>>, <<"x">>}

TimeBody(arg) == TIME \o SP \o SET \o SP \o arg
GiveBody(id, sep, amount) == GIVE \o SP \o id \o sep \o amount

Bodies ==
    {TimeBody(a) : a \in TimeArgs}
        \cup {GiveBody(id, sep, amount) :
                id \in GiveIds, sep \in GiveSeps, amount \in GiveAmounts}
        \cup {GIVE, GIVE \o SP \o <<"5", ".">>, GIVE \o SP \o <<"5", " ", "\t", "1">>,
              FOO \o BAR, <<>>}

\* A body with the sentinel
Slash(body) == <<"/">> \o body

\* A body without the sentinel, with a space before the sentinel, and with
\* whitespace around the body
Variants(body) ==
    {body, <<" ", "/">> \o body, <<"/", " ">> \o body \o <<" ", "\n">>}

VariedBodies ==
    {TimeBody(<<"7">>), TimeBody(<<"2", "5">>), TimeBody(<<"n", "o", "o", "n">>),
     GiveBody(<<"5">>, <<>>, <<>>), GiveBody(<<"5">>, SP, <<"1">>),
     GiveBody(<<"a", "b", "c">>, <<>>, <<>>), FOO \o BAR, <<>>}

Texts == {Slash(body) : body \in Bodies} \cup UNION {Variants(body) : body \in VariedBodies}

\* The texts tried against the registries with extra subclasses
RegBodies ==
    {FOO \o BAR, FOO, FOO \o BAR \o <<"b", "a", "z">>, <<"f", "o">>, <<"x">> \o FOO \o BAR,
     WARP \o SP \o <<":", "3">>, WARP \o SP \o <<"1", ":", "3">>,
     WARP \o SP \o <<"1", ":", "3", ":", "7">>, WARP \o SP \o <<":", "3", ":", "7">>,
     WARP \o SP \o <<"1", ":">>,
     TimeBody(<<"5">>), TimeBody(<<"2", "5">>), TimeBody(<<"n", "o", "o", "n">>),
     TimeBody(<<"5", "x">>),
     GiveBody(<<"5">>, <<>>, <<>>), GiveBody(<<"5">>, SP, <<"1">>),
     GiveBody(<<"5", ".", "5">>, <<>>, <<>>), GiveBody(<<"a", "b", "c">>, <<>>, <<>>),
     <<"h", "e", "l", "p">>}

RegTexts ==
    {Slash(body) : body \in RegBodies}
        \cup UNION {Variants(body) : body \in {FOO \o BAR, TimeBody(<<"5">>)}}

----------------------------------------------------------------------------
(* CommandParser.execute *)

\* parse is a function of the subclasses and the text alone: its results
\* for the registries and texts of the model, computed once
ParseOfBuiltin == [text \in Texts |-> parse(BuiltinRegistry, text)]
ParseOfRegistries == [subclasses \in Registries |-> [text \in RegTexts |-> parse(subclasses, text)]]

\* self.parse(command_text, controller=controller, user=user, world=world)
Parse(subclasses, command_text) ==
    IF subclasses = BuiltinRegistry /\ command_text \in Texts
    THEN ParseOfBuiltin[command_text]
    ELSE IF subclasses \in Registries /\ command_text \in RegTexts
    THEN ParseOfRegistries[subclasses][command_text]
    ELSE parse(subclasses, command_text)

\* What one call of execute did: how it ended (a value returned or an
\* exception raised), the Command instances it constructed, the handler
\* invocations it made, and the context it leaves.
Outcome(outcome, value, exc, parsed, invoked, tod, inv) ==
    [outcome |-> outcome, value |-> value, exc |-> exc,
     constructed |-> IF parsed.parsed THEN <<parsed.instance>> ELSE <<>>,
     index |-> parsed.index, match |-> parsed.match,
     invoked |-> invoked, time_of_day |-> tod, inventory |-> inv]

\* CommandParser.execute(command_text, controller, user, world)
execute(subclasses, command_text, tod, inv) ==
    LET parsed == Parse(subclasses, command_text)
    IN  IF parsed.raised # ""
        THEN Outcome("raise", None, OtherException(parsed.raised), parsed, <<>>, tod, inv)
        ELSE IF parsed.parsed
        THEN LET command == parsed.instance
                 command_type == subclasses[parsed.index]
                 groups == Groups(command.command_text, parsed.match)
                 args == Args(groups)
                 kwargs == Kwargs(GroupDict(command_type.command, command.command_text,
                                            parsed.match))
                 h == CommandExecute(command_type, command, args, kwargs, tod, inv)
                 invoked == <<[type |-> command.type, args |-> args, kwargs |-> kwargs,
                               raised |-> h.raised, ret |-> h.ret]>>
             IN  IF h.raised
                 THEN Outcome("raise", None, h.exc, parsed, invoked,
                              h.time_of_day, h.inventory)
                 ELSE Outcome("return", Normalize(h.ret), NoException, parsed, invoked,
                              h.time_of_day, h.inventory)
        ELSE IF StartsWithSlash(command_text)
        THEN Outcome("raise", None, UnknownCommandException(command_text), parsed, <<>>,
                     tod, inv)
        ELSE Outcome("return", COMMAND_NOT_HANDLED, NoException, parsed, <<>>, tod, inv)

----------------------------------------------------------------------------
(* The state machine *)

\* controller.time_of_day before any command: the controller owns it; the
\* model starts it outside 0..24 so that a write by a command shows
InitialTimes == {30}

NoCall ==
    [text |-> <<>>, outcome |-> "none", value |-> None, exc |-> NoException,
     constructed |-> <<>>, index |-> 0, match |-> NoMatch(""), invoked |-> <<>>]

Init ==
    /\ registry = BuiltinRegistry
    /\ time_of_day \in InitialTimes
    /\ inventory = [item \in KnownItems |-> 0]
    /\ call = NoCall

\* As Init, with subclasses defined after those of commands.py
InitReg ==
    /\ registry \in Registries
    /\ time_of_day \in InitialTimes
    /\ inventory = [item \in KnownItems |-> 0]
    /\ call = NoCall

\* One call CommandParser().execute(text, controller, user, world)
Execute(text) ==
    \E r \in {execute(registry, text, time_of_day, inventory)} :
        /\ \A item \in DOMAIN r.inventory : r.inventory[item] <= MaxQuantity
        /\ time_of_day' = r.time_of_day
        /\ inventory' = r.inventory
        /\ call' = [text |-> text, outcome |-> r.outcome, value |-> r.value,
                    exc |-> r.exc, constructed |-> r.constructed, index |-> r.index,
                    match |-> r.match, invoked |-> r.invoked]
        /\ UNCHANGED registry

Next == \E text \in Texts : Execute(text)

NextReg == \E text \in RegTexts : Execute(text)

Spec == Init /\ [][Next]_vars

SpecReg == InitReg /\ [][NextReg]_vars


----------------------------------------------------------------------------
(* The properties *)

\* The text begins with the sentinel
HasSentinel(text) == text # <<>> /\ text[1] = "/"

\* A call has been made
Called == call.outcome # "none"

\* The stripped text the last call matched against
Body == Stripped(call.text)

\* The i-th subclass of the registry matches the stripped text
Matches(i, body) == ReMatch(registry[i].command, body).matched

\* C1: a text that does not start with "/" makes execute return
\* COMMAND_NOT_HANDLED, construct no Command, invoke no handler and leave
\* the inventory and time_of_day as they were.
C1_NotACommand ==
    [][~HasSentinel(call'.text) =>
            /\ call'.outcome = "return"
            /\ call'.value = <<"None">>
            /\ call'.constructed = <<>>
            /\ call'.invoked = <<>>
            /\ inventory' = inventory
            /\ time_of_day' = time_of_day]_vars

\* "give 5", which would give an item had it the sentinel, after "/time set 7"
C1_Witness ==
    /\ call.text = GiveBody(<<"5">>, <<>>, <<>>)
    /\ call.outcome = "return"
    /\ call.value = <<"None">>
    /\ time_of_day = 7

C3_FirstMatchWins ==
    call.invoked # <<>> =>
        /\ Len(call.invoked) = 1
        /\ Len(call.constructed) = 1
        /\ call.index \in 1..Len(registry)
        /\ call.invoked[1].type = registry[call.index].name
        /\ call.constructed[1].type = registry[call.index].name
        /\ Matches(call.index, Body)
        /\ \A j \in 1..(call.index - 1) : ~Matches(j, Body)

\* "/foobar" with "foo.*" registered before "foobar"
C3_Witness ==
    /\ call.text = Slash(FOO \o BAR)
    /\ \E i, j \in 1..Len(registry) :
            /\ i < j
            /\ registry[i].name = "FooStarCommand"
            /\ registry[j].name = "FoobarCommand"
    /\ call.invoked # <<>>
    /\ call.invoked[1].type = "FooStarCommand"

\* The subclasses whose command attribute is missing or not a pattern
Malformed == {i \in 1..Len(registry) : registry[i].command.op \in {"None", "invalid"}}

\* The malformed subclass the loop of parse reaches: no earlier subclass
\* matches the body or is malformed
Reached(body) ==
    {i \in Malformed : \A j \in 1..(i - 1) : j \notin Malformed /\ ~Matches(j, body)}

C5_WholeText ==
    call.constructed # <<>> => call.match.end = Len(call.constructed[1].command_text)

\* C5 as amended: the pattern of the selected subclass matches a prefix of
\* the stripped text, which is what re.match asks; it is the whole text for
\* the two commands of commands.py, whose patterns end with "$".
C5_PrefixMatch ==
    call.constructed # <<>> =>
        LET stripped == call.constructed[1].command_text
        IN  /\ stripped = Body
            /\ call.match.end \in 0..Len(stripped)
            /\ ReMatch(registry[call.index].command,
                       SubSeq(stripped, 1, call.match.end)).matched
            /\ call.constructed[1].type \in {"GiveBlockCommand", "SetTimeCommand"} =>
                    call.match.end = Len(stripped)

\* "/foobarbaz" selected by the pattern "foobar", "baz" left over
C5_Witness ==
    /\ call.text = Slash(FOO \o BAR \o <<"b", "a", "z">>)
    /\ call.invoked # <<>>
    /\ call.invoked[1].type = "FoobarCommand"
    /\ call.match.end < Len(call.constructed[1].command_text)

\* C6: a command-level error raised by a handler reaches the caller of
\* execute carrying the text that was passed to execute, and a message.
C6_HandlerErrorCarriesText ==
    (call.outcome = "raise" /\ call.invoked # <<>> /\ call.exc.type = "CommandException") =>
        /\ call.exc.command_text = call.text
        /\ call.exc.message # <<"None">>

\* The groups of the last match that took part in it
Present == {i \in 1..Len(call.match.spans) : call.match.spans[i] # <<-1, -1>>}

\* The text group i captured
Captured(i) ==
    SubSeq(call.constructed[1].command_text, call.match.spans[i][1] + 1, call.match.spans[i][2])

\* The k-th of the groups that took part
NthPresent(k) == CHOOSE i \in Present : Cardinality({j \in Present : j <= i}) = k

\* C7: the handler's positional arguments are the captured groups in
\* pattern order with the absent ones removed, and its named arguments are
\* the named groups that took part; "/give 5" passes "5" alone and
\* "/give 5 1" passes "5" and "1".
C7_ArgumentBinding ==
    call.invoked # <<>> =>
        LET got == call.invoked[1]
        IN  /\ Len(got.args) = Cardinality(Present)
            /\ \A k \in 1..Len(got.args) : got.args[k] = Captured(NthPresent(k))
            /\ got.kwargs =
                  {<<ni[1], Captured(ni[2])>> :
                      ni \in {x \in GroupIndex(registry[call.index].command) : x[2] \in Present}}
            /\ call.text = Slash(GiveBody(<<"5">>, <<>>, <<>>)) => got.args = <<(<<"5">>)>>
            /\ call.text = Slash(GiveBody(<<"5">>, SP, <<"1">>)) => got.args = <<(<<"5">>), (<<"1">>)>>

\* "/warp :3:7": group 1 absent, the named group y and group 3 present
C7_Witness ==
    /\ call.text = Slash(WARP \o SP \o <<":", "3", ":", "7">>)
    /\ call.invoked # <<>>
    /\ call.invoked[1].args = <<(<<"3">>), (<<"7">>)>>
    /\ call.invoked[1].kwargs = {<<"y", (<<"3">>)>>}

\* A handler ran to completion in the last call
Completed == call.outcome = "return" /\ call.invoked # <<>>

\* C8 as claimed: after a handler completed, execute returns COMMAND_HANDLED
\* exactly when the handler returned no value, and otherwise the handler's
\* value; never COMMAND_NOT_HANDLED.
C8_OutcomesDistinct ==
    Completed =>
        /\ (call.value = <<"bool", "True">>) <=> (call.invoked[1].ret = <<"None">>)
        /\ call.invoked[1].ret # <<"None">> => call.value = call.invoked[1].ret
        /\ call.value # <<"None">>

\* C8 as amended: after a handler completed, execute returns COMMAND_HANDLED
\* when the handler returned no value and otherwise the handler's value,
\* never COMMAND_NOT_HANDLED; the result tells the two apart unless the
\* handler's value equals True.
C8_Normalized ==
    Completed =>
        LET ret == call.invoked[1].ret
            equalsTrue(v) == v \in {<<"bool", "True">>, <<"int", "1">>}
        IN  /\ ret = <<"None">> => call.value = <<"bool", "True">>
            /\ ret # <<"None">> => call.value = ret
            /\ call.value # <<"None">>
            /\ (ret # <<"None">> /\ equalsTrue(call.value)) <=> equalsTrue(ret)

\* "/foobar" handled by a handler that returns False
C8_Witness ==
    /\ Completed
    /\ call.invoked[1].type = "FoobarCommand"
    /\ call.invoked[1].ret = <<"bool", "False">>
    /\ call.value = <<"bool", "False">>

\* "/give abc"
GiveAbc == Slash(GiveBody(<<"a", "b", "c">>, <<>>, <<>>))

====
